---- MODULE Spec2Model ----
(***************************************************************************)
(* Model of the notebooks of sagemaker-genai-hosting-examples.             *)
(*                                                                         *)
(* Spec / FairSpec: one notebook run at a time.  The scale-to-zero         *)
(* notebook is modelled cell by cell together with the status values and   *)
(* scaling reactions of the managed platform that its cells configure and  *)
(* poll.  The other notebooks are straight-line programs of calls, each    *)
(* with the resources it creates and deletes, the exceptions it can raise  *)
(* and the handlers around it; the NIM notebooks share the %store database.*)
(*                                                                         *)
(* StreamSpec: the loops that post-process a streamed response, applied to *)
(* every response of a bounded number of messages.                         *)
(***************************************************************************)
EXTENDS Integers, Sequences, FiniteSets, TLC

VARIABLES
    pc,          \* scale-to-zero notebook: the next cell / statement to run
    halted,      \* an exception propagated out of a cell and stopped the run
    interrupted, \* some exception has propagated during this run (history)
    status,      \* the notebook variable `status` of the polling loops
    sleeps,      \* time.sleep(30) calls of the current polling loop (saturating)
    stepArn,     \* the notebook variable step_scaling_policy_arn
    reruns,      \* manual re-executions of the first clean-up cell
    calls,       \* history: the control-plane / runtime calls issued, in order
    epStatus,    \* platform: EndpointStatus
    icStatus,    \* platform: InferenceComponentStatus
    desired,     \* platform: DesiredCopyCount of the inference component
    current,     \* platform: CurrentCopyCount of the inference component
    instances,   \* platform: CurrentInstanceCount of the variant
    target,      \* platform: the registered scalable target, or NoTarget
    policies,    \* platform: scaling policies, in creation order
    alarm,       \* platform: the CloudWatch alarm, or NoAlarm
    alarmState,  \* platform: "OK" or "ALARM"
    failures,    \* platform: NoCapacityInvocationFailures datapoint of the period
    nb,          \* the notebook that is being run
    ip,          \* other notebooks: index of the next call of the notebook's program
    kernel,      \* NIM notebooks: the kernel's variables
    store,       \* the %store database, which outlives a notebook run
    handed,      \* NIM notebooks: what the store holds for the base notebook at %run
    files,       \* multi-adapter notebook: the local paths that exist
    objects,     \* multi-adapter notebook: the S3 objects the notebook has uploaded
    artifact,    \* multi-adapter notebook: ArtifactUrl of the adapter component
    password,    \* CloudFormation: the value given for OpenSearchPassword
    verdict,     \* CloudFormation: what the validation of the parameter said
    parameters_default,  \* create_payload: the dict object of the default argument
    call,        \* create_payload: the last call, its arguments and its outcome
    load,        \* other clients keep the concurrent requests per copy at the target value
    parser,      \* streaming cell: "tgi" or "nim" ("none" outside a streaming cell)
    msgs,        \* history: the kinds of the messages of the response
    wire,        \* what of the response has not arrived yet
    accumulated_data,     \* NIM: the notebook variable accumulated_data
    printed,     \* the texts print() has written, in order
    errors,      \* NIM: the "Error processing event" lines printed
    token_count, \* TGI: the notebook variable token_count
    first_token_received, \* TGI: the notebook variable first_token_received
    entered,     \* NIM: accumulated_data when the inner while loop was entered
    iterations   \* NIM: the iterations of the inner while loop since then

\* What the cells of the scale-to-zero notebook never touch.
stream == <<parser, msgs, wire, accumulated_data, printed, errors, token_count,
            first_token_received, entered, iterations>>

adapters == <<files, objects, artifact>>

inputs == <<password, verdict, parameters_default, call>>

elsewhere == <<nb, ip, kernel, store, handed, adapters, inputs, load, stream>>

local == <<pc, halted, interrupted, status, sleeps, stepArn, reruns, elsewhere>>
platform == <<epStatus, icStatus, desired, current, instances, target, policies, alarm, alarmState, failures>>
vars == <<local, calls, platform>>

----------------------------------------------------------------------------
(* Bounds of the model *)

MaxSleeps == 2
MaxReruns == 1
EvalLines == 1
MaxMessages == 2

MaxPasswordLength == 33

MaxPromptLen == 2

MaxCalls == 6

MaxBuffer == 6

----------------------------------------------------------------------------
(* Literals of the scale-to-zero notebook *)

min_instance_count_one == 0 + 1

min_instance_count == 0
max_instance_count == 3
InitialInstanceCount == 1
InitialCopies == 1
min_copy_count == 0
max_copy_count == 8
ScalingAdjustment == 1
Threshold == 1

scalable_dimension == "sagemaker:inference-component:DesiredCopyCount"
delete_policy_dimension == "sagemaker:variant:DesiredInstanceCount"
target_tracking_policy_name == "Target-tracking-policy"
step_scaling_policy_name == "Step-scaling-policy"

NoTarget == [registered |-> FALSE, dim |-> "none", min |-> 0, max |-> 0]
NoAlarm == [exists |-> FALSE, actions |-> <<>>, threshold |-> 0]

Min(a, b) == IF a < b THEN a ELSE b
Max(a, b) == IF a > b THEN a ELSE b

\* The ARN the platform gives a scaling policy: determined by its name.
PolicyARN(name) == <<"arn", name>>

Terminal_with_updating == {"InService", "Failed", "Updating"}

Terminal_without_failed == {"InService"}

\* if status in ["InService", "Failed"]: break
Terminal == {"InService", "Failed"}

\* An entry of the call history: the call, how it ended ("ok", "not_found",
\* "no_capacity", "error" or "raised" when it propagated, "caught" when a
\* handler swallowed it), the exception class, and the remote resources the
\* call created and the ones it asked to delete.
Call(api, out, exc, creates, deletes) ==
    [api |-> api, out |-> out, exc |-> exc, creates |-> creates, deletes |-> deletes]

LogCall(api, out, exc, creates, deletes) ==
    calls' = Append(calls, Call(api, out, exc, creates, deletes))

\* What the calls of the scale-to-zero notebook create ...
S2ZCreates(api) ==
    CASE api = "create_endpoint_config"    -> << "endpoint_config" >>
      [] api = "create_endpoint"           -> << "endpoint" >>
      [] api = "deploy"                    -> << "model", "inference_component" >>
      [] api = "register_scalable_target"  -> << "scalable_target" >>
      [] api = "put_metric_alarm"          -> << "alarm" >>
      [] OTHER                             -> << >>

\* ... and what they ask the platform to delete.
S2ZDeletes(api) ==
    CASE api = "deregister_scalable_target" -> << "scalable_target" >>
      [] api = "delete_alarms"              -> << "alarm" >>
      [] api = "delete_scaling_policy"      ->
            IF delete_policy_dimension = scalable_dimension
               THEN << "Step-scaling-policy" >>
               ELSE << "Step-scaling-policy of another dimension" >>
      [] api = "delete_inference_component" -> << "inference_component" >>
      [] api = "delete_endpoint"            -> << "endpoint" >>
      [] api = "delete_endpoint_config"     -> << "endpoint_config" >>
      [] OTHER                              -> << >>

Log(api, out) ==
    LogCall(api, out, IF out \in {"ok", "not_found"} THEN "none" ELSE out,
            IF out = "ok" THEN S2ZCreates(api) ELSE << >>, S2ZDeletes(api))

\* An exception that no handler of the cell catches stops the run.
Raise == halted' = TRUE /\ interrupted' = TRUE

Running == ~halted

----------------------------------------------------------------------------
(* Scale-to-zero notebook: set-up cells *)

CreateEndpointConfig ==
    /\ Running /\ pc = "create_endpoint_config"
    /\ UNCHANGED elsewhere
    /\ Log("create_endpoint_config", "ok")
    /\ pc' = "create_endpoint"
    /\ UNCHANGED <<halted, interrupted, status, sleeps, stepArn, reruns, platform>>

CreateEndpoint ==
    /\ Running /\ pc = "create_endpoint"
    /\ UNCHANGED elsewhere
    /\ Log("create_endpoint", "ok")
    /\ epStatus' = "Creating"
    /\ pc' = "ep_describe"
    /\ sleeps' = 0
    /\ UNCHANGED <<halted, interrupted, status, stepArn, reruns, icStatus, desired, current,
                   instances, target, policies, alarm, alarmState, failures>>

----------------------------------------------------------------------------
(* The polling loops.  desc = describe_...; status = desc[...Status]        *)

Describe(at, check, platformStatus) ==
    /\ Running /\ pc = at
    /\ UNCHANGED elsewhere
    /\ status' = platformStatus
    /\ pc' = check
    /\ UNCHANGED <<halted, interrupted, sleeps, stepArn, reruns, calls, platform>>

\* if status in [...]: break  --  otherwise time.sleep(30) and loop
Check(at, again, after) ==
    /\ Running /\ pc = at
    /\ UNCHANGED elsewhere
    /\ IF status \in Terminal
          THEN pc' = after /\ sleeps' = sleeps
          ELSE pc' = again /\ sleeps' = Min(sleeps + 1, MaxSleeps)
    /\ UNCHANGED <<halted, interrupted, status, stepArn, reruns, calls, platform>>

EpDescribe == Describe("ep_describe", "ep_check", epStatus)

EpCheck == Check("ep_check", "ep_describe", "deploy")

----------------------------------------------------------------------------
(* Deploying the model onto the endpoint and the first test invocation *)

\* final_model.deploy(endpoint_name=endpoint_name, resources=resources_required):
\* creates the model and the inference component (copies = 1) on the existing
\* endpoint and waits for the component; the platform rejects the call when the
\* endpoint is not InService, and the component may fail to start.
Deploy ==
    /\ Running /\ pc = "deploy"
    /\ UNCHANGED elsewhere
    /\ pc' = "test_invoke"
    /\ \/ /\ epStatus = "InService"
          /\ Log("deploy", "ok")
          /\ icStatus' = "InService"
          /\ desired' = InitialCopies /\ current' = InitialCopies
          /\ UNCHANGED <<halted, interrupted>>
       \/ /\ epStatus = "InService"
          /\ Log("deploy", "error")
          /\ icStatus' = "Failed"
          /\ UNCHANGED <<desired, current>>
          /\ Raise
       \/ /\ epStatus # "InService"
          /\ Log("deploy", "error")
          /\ UNCHANGED <<icStatus, desired, current>>
          /\ Raise
    /\ UNCHANGED <<status, sleeps, stepArn, reruns, epStatus, instances, target,
                   policies, alarm, alarmState, failures>>

\* response = predictor.predict(payload): served when a copy is running,
\* otherwise the platform answers with the no-capacity ValidationError and
\* records a NoCapacityInvocationFailures datapoint.
Invoke(at, api, after) ==
    /\ Running /\ pc = at
    /\ UNCHANGED elsewhere
    /\ pc' = after
    /\ sleeps' = 0
    /\ IF current >= 1
          THEN /\ Log(api, "ok")
               /\ UNCHANGED <<halted, interrupted, failures>>
          ELSE /\ Log(api, "no_capacity")
               /\ failures' = 1
               /\ Raise
    /\ UNCHANGED <<status, stepArn, reruns, epStatus, icStatus, desired, current,
                   instances, target, policies, alarm, alarmState>>

TestInvoke == Invoke("test_invoke", "predict_test", "register_target")

----------------------------------------------------------------------------
(* Scaling configuration cells *)

RegisterScalableTarget_max_nine ==
    /\ Running /\ pc = "register_target"
    /\ UNCHANGED elsewhere
    /\ Log("register_scalable_target", "ok")
    /\ target' = [registered |-> TRUE, dim |-> scalable_dimension,
                  min |-> min_copy_count, max |-> max_copy_count + 1]
    /\ pc' = "put_tt_policy"
    /\ UNCHANGED <<halted, interrupted, status, sleeps, stepArn, reruns, epStatus,
                   icStatus, desired, current, instances, policies, alarm,
                   alarmState, failures>>

\* register_scalable_target(MinCapacity=min_copy_count, MaxCapacity=max_copy_count)
RegisterScalableTarget ==
    /\ Running /\ pc = "register_target"
    /\ UNCHANGED elsewhere
    /\ Log("register_scalable_target", "ok")
    /\ target' = [registered |-> TRUE, dim |-> scalable_dimension,
                  min |-> min_copy_count, max |-> max_copy_count]
    /\ pc' = "put_tt_policy"
    /\ UNCHANGED <<halted, interrupted, status, sleeps, stepArn, reruns, epStatus,
                   icStatus, desired, current, instances, policies, alarm,
                   alarmState, failures>>

PutPolicy(at, name, type, after) ==
    /\ Running /\ pc = at
    /\ UNCHANGED elsewhere
    /\ LogCall("put_scaling_policy", "ok", "none", << name >>, << >>)
    /\ policies' = Append(policies, [name |-> name, type |-> type, dim |-> scalable_dimension])
    /\ pc' = after
    /\ UNCHANGED <<halted, interrupted, status, sleeps, stepArn, reruns, epStatus,
                   icStatus, desired, current, instances, target, alarm,
                   alarmState, failures>>

PutTargetTrackingPolicy ==
    PutPolicy("put_tt_policy", target_tracking_policy_name, "TargetTrackingScaling", "put_step_policy")

PutStepScalingPolicy ==
    PutPolicy("put_step_policy", step_scaling_policy_name, "StepScaling", "describe_policies")

DescribeScalingPolicies_unfiltered(names, dim) ==
    SelectSeq(policies, LAMBDA p : p.dim = dim)

\* describe_scaling_policies(PolicyNames=[...], ResourceId, ScalableDimension)
DescribeScalingPolicies(names, dim) ==
    SelectSeq(policies, LAMBDA p : p.name \in names /\ p.dim = dim)

\* step_scaling_policy_arn = resp['ScalingPolicies'][0]['PolicyARN']
DescribePolicies ==
    /\ Running /\ pc = "describe_policies"
    /\ UNCHANGED elsewhere
    /\ pc' = "put_alarm"
    /\ LET resp == DescribeScalingPolicies({step_scaling_policy_name}, scalable_dimension)
       IN  IF Len(resp) > 0
              THEN /\ stepArn' = PolicyARN(resp[1].name)
                   /\ UNCHANGED <<halted, interrupted>>
              ELSE /\ UNCHANGED stepArn
                   /\ Raise
    /\ UNCHANGED <<status, sleeps, reruns, calls, platform>>

\* put_metric_alarm(AlarmActions=[step_scaling_policy_arn], Threshold=1, ...)
PutMetricAlarm ==
    /\ Running /\ pc = "put_alarm"
    /\ UNCHANGED elsewhere
    /\ Log("put_metric_alarm", "ok")
    /\ alarm' = [exists |-> TRUE, actions |-> <<stepArn>>, threshold |-> Threshold]
    /\ alarmState' = "OK"
    /\ pc' = "sleep_900"
    /\ UNCHANGED <<halted, interrupted, status, sleeps, stepArn, reruns, epStatus,
                   icStatus, desired, current, instances, target, policies, failures>>

----------------------------------------------------------------------------
(* Testing the behaviour: scale in, invocation at zero capacity, scale out *)

\* time.sleep(900); start_time = time.time()
SleepBeforeScaleInLoop ==
    /\ Running /\ pc = "sleep_900"
    /\ UNCHANGED elsewhere
    /\ pc' = "in_describe"
    /\ sleeps' = 0
    /\ UNCHANGED <<halted, interrupted, status, stepArn, reruns, calls, platform>>

InDescribe == Describe("in_describe", "in_check", icStatus)

InCheck == Check("in_check", "in_describe", "wait_endpoint")

\* time.sleep(600); sagemaker_session.wait_for_endpoint(endpoint_name)
WaitForEndpoint ==
    /\ Running /\ pc = "wait_endpoint"
    /\ UNCHANGED elsewhere
    /\ epStatus \in Terminal
    /\ pc' = "zero_invoke"
    /\ IF epStatus = "InService"
          THEN UNCHANGED <<halted, interrupted>>
          ELSE Raise
    /\ UNCHANGED <<status, sleeps, stepArn, reruns, calls, platform>>

ZeroInvoke == Invoke("zero_invoke", "predict_zero", "out_describe")

OutDescribe == Describe("out_describe", "out_check", icStatus)

OutCheck == Check("out_check", "out_describe", "verify_invoke")

VerifyInvoke == Invoke("verify_invoke", "predict_verify", "cl_dereg")

\* After the ValidationError of an invocation the reader runs the next cell.
Resume ==
    /\ halted
    /\ Len(calls) > 0 /\ calls[Len(calls)].out = "no_capacity"
    /\ halted' = FALSE
    /\ UNCHANGED <<pc, interrupted, status, sleeps, stepArn, reruns, calls, platform, elsewhere>>

----------------------------------------------------------------------------
(* Clean-up cells *)

\* The outcomes of a clean-up call: "ok" when the object it names exists,
\* "not_found" when it does not, "error" for any other failure.
Outcomes(exists) == IF exists THEN {"ok", "error"} ELSE {"not_found", "error"}

CleanupCatches_nothing == {}

\* except aas_client.exceptions.ObjectNotFoundException /
\* except cloudwatch_client.exceptions.ResourceNotFoundException
CleanupCatches == {"not_found"}

\* try: <call>; print(...) except <not found>: print(...)
CleanupStep(at, api, exists, after) ==
    /\ Running /\ pc = at
    /\ UNCHANGED elsewhere
    /\ \E out \in Outcomes(exists) :
          /\ Log(api, out)
          /\ IF out = "ok" \/ out \in CleanupCatches
                THEN pc' = after /\ UNCHANGED <<halted, interrupted>>
                ELSE pc' = "del_ic" /\ Raise
    /\ UNCHANGED <<status, sleeps, stepArn, reruns, epStatus, icStatus, desired,
                   current, instances, failures>>

Succeeded == calls'[Len(calls')].out = "ok"

DeregisterScalableTarget ==
    /\ CleanupStep("cl_dereg", "deregister_scalable_target",
                   target.registered /\ target.dim = scalable_dimension, "cl_alarm")
    /\ target' = IF Succeeded THEN NoTarget ELSE target
    /\ UNCHANGED <<policies, alarm, alarmState>>

DeleteAlarms ==
    /\ CleanupStep("cl_alarm", "delete_alarms", alarm.exists, "cl_policy")
    /\ alarm' = IF Succeeded THEN NoAlarm ELSE alarm
    /\ alarmState' = IF Succeeded THEN "OK" ELSE alarmState
    /\ UNCHANGED <<target, policies>>

\* delete_scaling_policy(PolicyName=step_scaling_policy_name, ...,
\*     ScalableDimension="sagemaker:variant:DesiredInstanceCount")
Named(p, name, dim) == p.name = name /\ p.dim = dim

DeleteScalingPolicy ==
    /\ CleanupStep("cl_policy", "delete_scaling_policy",
                   \E i \in DOMAIN policies : Named(policies[i], step_scaling_policy_name, delete_policy_dimension),
                   "del_ic")
    /\ policies' = IF Succeeded
                      THEN SelectSeq(policies, LAMBDA p : ~Named(p, step_scaling_policy_name, delete_policy_dimension))
                      ELSE policies
    /\ UNCHANGED <<target, alarm, alarmState>>

\* Manual re-execution of the clean-up cell.
RerunCleanup ==
    /\ Running /\ pc = "del_ic"
    /\ UNCHANGED elsewhere
    /\ reruns < MaxReruns
    /\ reruns' = reruns + 1
    /\ pc' = "cl_dereg"
    /\ UNCHANGED <<halted, interrupted, status, sleeps, stepArn, calls, platform>>

DeleteInferenceComponent ==
    /\ Running /\ pc = "del_ic"
    /\ UNCHANGED elsewhere
    /\ Log("delete_inference_component", "ok")
    /\ icStatus' = "Deleted" /\ desired' = 0 /\ current' = 0
    /\ pc' = "del_endpoint"
    /\ UNCHANGED <<halted, interrupted, status, sleeps, stepArn, reruns, epStatus,
                   instances, target, policies, alarm, alarmState, failures>>

DeleteEndpoint ==
    /\ Running /\ pc = "del_endpoint"
    /\ UNCHANGED elsewhere
    /\ Log("delete_endpoint", "ok")
    /\ epStatus' = "Deleted" /\ instances' = 0
    /\ pc' = "del_config"
    /\ UNCHANGED <<halted, interrupted, status, sleeps, stepArn, reruns, icStatus,
                   desired, current, target, policies, alarm, alarmState, failures>>

DeleteEndpointConfig ==
    /\ Running /\ pc = "del_config"
    /\ UNCHANGED elsewhere
    /\ Log("delete_endpoint_config", "ok")
    /\ pc' = "done"
    /\ UNCHANGED <<halted, interrupted, status, sleeps, stepArn, reruns, platform>>

----------------------------------------------------------------------------
(* The managed platform, as the notebook configures and describes it *)

\* Creating -> InService with InitialInstanceCount instances
EndpointInService ==
    /\ epStatus = "Creating"
    /\ epStatus' = "InService"
    /\ instances' = InitialInstanceCount
    /\ UNCHANGED <<local, calls, icStatus, desired, current, target, policies,
                   alarm, alarmState, failures>>

\* Creating -> Failed
EndpointFailed ==
    /\ epStatus = "Creating"
    /\ epStatus' = "Failed"
    /\ UNCHANGED <<local, calls, icStatus, desired, current, instances, target,
                   policies, alarm, alarmState, failures>>

HasPolicy(type) ==
    \E i \in DOMAIN policies : policies[i].type = type /\ policies[i].dim = target.dim

\* The target-tracking policy scales the copy count in, down to MinCapacity,
\* while the component receives no requests.
TargetTrackingScaleIn ==
    /\ target.registered /\ HasPolicy("TargetTrackingScaling")
    /\ ~load
    /\ icStatus = "InService" /\ current = desired
    /\ desired > target.min
    /\ \E d \in target.min .. (desired - 1) : desired' = d
    /\ icStatus' = "Updating"
    /\ UNCHANGED <<local, calls, epStatus, current, instances, target, policies,
                   alarm, alarmState, failures>>

ScaleInCompletes ==
    /\ icStatus = "Updating" /\ desired < current
    /\ current' = desired
    /\ icStatus' = "InService"
    /\ UNCHANGED <<local, calls, epStatus, desired, instances, target, policies,
                   alarm, alarmState, failures>>

\* ManagedInstanceScaling: with no copies left the instances are terminated,
\* down to MinInstanceCount.
InstancesScaleIn ==
    /\ epStatus = "InService" /\ icStatus = "InService"
    /\ current = 0 /\ desired = 0
    /\ instances > min_instance_count
    /\ instances' = instances - 1
    /\ UNCHANGED <<local, calls, epStatus, icStatus, desired, current, target,
                   policies, alarm, alarmState, failures>>

\* ComparisonOperator = GreaterThanOrEqualToThreshold, EvaluationPeriods = 1,
\* DatapointsToAlarm = 1
AlarmEvaluate ==
    /\ alarm.exists /\ alarmState = "OK"
    /\ failures >= alarm.threshold
    /\ alarmState' = "ALARM"
    /\ UNCHANGED <<local, calls, epStatus, icStatus, desired, current, instances,
                   target, policies, alarm, failures>>

\* The policies that the alarm's actions name and that can act on the target.
AlarmPolicies ==
    {i \in DOMAIN policies :
        /\ \E a \in DOMAIN alarm.actions : alarm.actions[a] = PolicyARN(policies[i].name)
        /\ policies[i].type = "StepScaling"
        /\ policies[i].dim = target.dim}

\* AdjustmentType = ChangeInCapacity, StepAdjustments = [lower bound 0: +1]
StepAdjusted(d) == Min(d + ScalingAdjustment, target.max)

StepScalingAction ==
    /\ alarm.exists /\ alarmState = "ALARM"
    /\ target.registered /\ AlarmPolicies # {}
    /\ icStatus = "InService" /\ current = desired
    /\ desired' = StepAdjusted(desired)
    /\ icStatus' = IF desired' # current THEN "Updating" ELSE icStatus
    /\ alarmState' = "OK"
    /\ failures' = 0
    /\ UNCHANGED <<local, calls, epStatus, current, instances, target, policies, alarm>>

\* The platform provisions what the new copies need, within
\* [1, MaxInstanceCount] instances, and starts the copies.
ScaleOutCompletes ==
    /\ icStatus = "Updating" /\ desired > current
    /\ \E k \in Max(instances, 1) .. max_instance_count : instances' = k
    /\ current' = desired
    /\ icStatus' = "InService"
    /\ UNCHANGED <<local, calls, epStatus, desired, target, policies, alarm,
                   alarmState, failures>>

----------------------------------------------------------------------------
(* The other notebooks: each one is a straight-line program of calls *)

ExcKinds == {"ClientError", "ValueError", "JSONDecodeError", "KeyError", "OSError"}

\* A call of a program: the line of the source it stands on, the resources it
\* creates and asks to delete, the exceptions it can raise, the exceptions
\* the enclosing try statement catches, how many of the following calls are
\* skipped after it returned and after its exception was caught, and its
\* effect on the kernel and the store, and the resource it waits for or invokes.
Op(api, line, raises) ==
    [api |-> api, line |-> line, creates |-> << >>, deletes |-> << >>,
     raises |-> raises, catches |-> {}, okSkip |-> 0, catchSkip |-> 0, fx |-> "none",
     on |-> "none"]

On(op, resource) == [op EXCEPT !.on = resource]

Creating(api, line, resources) ==
    [Op(api, line, {"ClientError"}) EXCEPT !.creates = resources]

Deleting(api, line, resources) ==
    [Op(api, line, {"ClientError"}) EXCEPT !.deletes = resources]

Magic(api, line, fx) == [Op(api, line, {}) EXCEPT !.fx = fx]

Guarded(op, catches, okSkip, catchSkip) ==
    [op EXCEPT !.catches = catches, !.okSkip = okSkip, !.catchSkip = catchSkip]

(* multi-adapter-sm-ic-hosting.ipynb *)

MultiAdapterSetup_component_before_wait ==
    << Creating("create_model", 258, << "model" >>),
       Creating("create_endpoint_config", 307, << "endpoint_config" >>),
       Creating("create_endpoint", 368, << "endpoint" >>),
       Creating("create_inference_component", 415, << "base_inference_component" >>),
       On(Op("wait_for_endpoint", 372, {"ClientError"}), "endpoint"),
       On(Op("wait_for_inference_component", 435, {"ClientError"}),
          "base_inference_component"),
       Magic("tar", 497, "tar"),
       Magic("aws s3 cp", 499, "cp_adapter"),
       [Creating("create_inference_component", 529, << "adapter_inference_component" >>)
           EXCEPT !.fx = "create_adapter"],
       On(Op("wait_for_inference_component", 540, {"ClientError"}),
          "adapter_inference_component"),
       On(Op("invoke_endpoint", 635, {"ClientError"}), "base_inference_component"),
       On(Op("invoke_endpoint", 674, {"ClientError"}), "adapter_inference_component"),
       Magic("aws s3 cp", 753, "cp_new_adapter"),
       [Op("update_inference_component", 773, {"ClientError"}) EXCEPT !.fx = "update_adapter"],
       On(Op("wait_for_inference_component", 782, {"ClientError"}),
          "adapter_inference_component"),
       On(Op("invoke_endpoint", 829, {"ClientError"}), "adapter_inference_component") >>

\* Steps 1 to 3: the calls of the cells, from top to bottom
MultiAdapterSetup ==
    << Creating("create_model", 258, << "model" >>),
       Creating("create_endpoint_config", 307, << "endpoint_config" >>),
       Creating("create_endpoint", 368, << "endpoint" >>),
       On(Op("wait_for_endpoint", 372, {"ClientError"}), "endpoint"),
       Creating("create_inference_component", 415, << "base_inference_component" >>),
       On(Op("wait_for_inference_component", 435, {"ClientError"}),
          "base_inference_component"),
       Magic("tar", 497, "tar"),
       Magic("aws s3 cp", 499, "cp_adapter"),
       [Creating("create_inference_component", 529, << "adapter_inference_component" >>)
           EXCEPT !.fx = "create_adapter"],
       On(Op("wait_for_inference_component", 540, {"ClientError"}),
          "adapter_inference_component"),
       On(Op("invoke_endpoint", 635, {"ClientError"}), "base_inference_component"),
       On(Op("invoke_endpoint", 674, {"ClientError"}), "adapter_inference_component"),
       Magic("aws s3 cp", 753, "cp_new_adapter"),
       [Op("update_inference_component", 773, {"ClientError"}) EXCEPT !.fx = "update_adapter"],
       On(Op("wait_for_inference_component", 782, {"ClientError"}),
          "adapter_inference_component"),
       On(Op("invoke_endpoint", 829, {"ClientError"}), "adapter_inference_component") >>

MultiAdapterCleanup_creation_order ==
    << Deleting("delete_model", 901, << "model" >>),
       Deleting("delete_endpoint_config", 900, << "endpoint_config" >>),
       Deleting("delete_endpoint", 899, << "endpoint" >>),
       Deleting("delete_inference_component", 879, << "base_inference_component" >>),
       Deleting("delete_inference_component", 861, << "adapter_inference_component" >>) >>

\* Step 4: Clean up the environment
MultiAdapterCleanup ==
    << Deleting("delete_inference_component", 861, << "adapter_inference_component" >>),
       Deleting("delete_inference_component", 879, << "base_inference_component" >>),
       Deleting("delete_endpoint", 899, << "endpoint" >>),
       Deleting("delete_endpoint_config", 900, << "endpoint_config" >>),
       Deleting("delete_model", 901, << "model" >>) >>

MultiAdapterProgram == MultiAdapterSetup \o MultiAdapterCleanup

(* The NIM notebooks and the base notebook they run *)

NimNotebooks == {"nim_llama", "nim_mixtral"}

ConfigVars ==
    {"public_nim_image", "nim_model", "sm_model_name", "instance_type",
     "payload_model", "NGC_API_KEY"}

StoreVars == ConfigVars \cup {"endpoint_name", "endpoint_config_name"}

Unset == "unset"

\* The "Set Variables" cell of each notebook.
SetVariables(n) ==
    IF n = "nim_llama"
       THEN [public_nim_image |-> "public.ecr.aws/nvidia/nim:llama3-70b-instruct-1.0.0",
             nim_model        |-> "nim-llama3-70b-instruct",
             sm_model_name    |-> "nim-llama3-70b-instruct",
             instance_type    |-> "ml.p4d.24xlarge",
             payload_model    |-> "meta/llama3-70b-instruct",
             NGC_API_KEY      |-> "<YOUR NGC API KEY>"]
       ELSE [public_nim_image |-> "public.ecr.aws/nvidia/nim:mixtral-8x7b-instruct-v01-1.0.0",
             nim_model        |-> "nim-mixtral-8x7b-instruct",
             sm_model_name    |-> "nim-mixtral-8x7b-instruct",
             instance_type    |-> "ml.p4d.24xlarge",
             payload_model    |-> "mistralai/mixtral-8x7b-instruct-v0.1",
             NGC_API_KEY      |-> "<YOUR NGC API KEY>"]

\* The variables named by the %store line of each notebook.
StoredVariables(n) ==
    IF n = "nim_llama"
       THEN {"public_nim_image", "nim_model", "sm_model_name", "instance_type",
             "payload_model", "NGC_API_KEY"}
       ELSE {"nim_model", "sm_model_name", "instance_type", "payload_model", "NGC_API_KEY"}

\* The base notebook that %run executes: it creates the model, the endpoint
\* configuration and the endpoint, waits, and stores the three names the
\* calling notebook restores.
BaseNimProgram(line) ==
    << Creating("create_model", line, << "model" >>),
       Creating("create_endpoint_config", line, << "endpoint_config" >>),
       Creating("create_endpoint", line, << "endpoint" >>),
       Op("wait_for_endpoint", line, {"ClientError"}),
       Magic("%store", line, "base_store") >>

\* except json.JSONDecodeError: continue  /  except Exception as e: print; continue
NimEventCatches == ExcKinds

NimCleanup(line) ==
    << Deleting("delete_model", line, << "model" >>),
       Deleting("delete_endpoint_config", line + 1, << "endpoint_config" >>),
       Deleting("delete_endpoint", line + 2, << "endpoint" >>) >>

NimLlamaProgram ==
    << Magic("set_variables", 287, "assign"), Magic("%store", 317, "store") >>
    \o << Magic("%run", 357, "run_base") >> \o BaseNimProgram(357)
    \o << Magic("%store -r", 370, "restore"),
          Op("invoke_endpoint", 420, {"ClientError"}),
          Op("invoke_endpoint_with_response_stream", 481, {"ClientError"}),
          Guarded(Op("process_event", 511, {"JSONDecodeError", "KeyError"}), NimEventCatches, 0, 0) >>
    \o NimCleanup(556)

NimMixtralProgram ==
    << Magic("set_variables", 299, "assign"), Magic("%store", 318, "store") >>
    \o << Magic("%run", 344, "run_base") >> \o BaseNimProgram(344)
    \o << Magic("%store -r", 355, "restore"),
          Op("invoke_endpoint", 405, {"ClientError"}),
          Op("invoke_endpoint_with_response_stream", 466, {"ClientError"}),
          Guarded(Op("process_event", 496, {"JSONDecodeError", "KeyError"}), NimEventCatches, 0, 0) >>
    \o NimCleanup(541)

(* The Llama 3.3 70B TGI notebook *)

RoleLookupCatches_everything == ExcKinds

\* try: role = sagemaker.get_execution_role()  except ValueError: ...
RoleLookupCatches == {"ValueError"}

\* except json.JSONDecodeError: continue
StreamDecodeCatches == {"JSONDecodeError"}

TgiProgram ==
    << Guarded(Op("get_execution_role", 52, {"ValueError", "ClientError"}), RoleLookupCatches, 1, 0),
       Op("get_role", 55, {"ClientError"}),
       Creating("deploy", 85, << "model", "endpoint_config", "endpoint" >>),
       Op("predict", 112, {"ClientError"}),
       Op("list_endpoints", 146, {"ClientError"}),
       Op("invoke_endpoint_with_response_stream", 221, {"ClientError"}),
       Guarded(Op("process_event", 235, {"JSONDecodeError", "KeyError"}), StreamDecodeCatches, 0, 0),
       Deleting("delete_endpoint", 266, << "endpoint", "endpoint_config" >>) >>

(* The quantization notebook *)

\* except Exception as e: print(f"An error occurred: {e}")
EvalFilesCatches == ExcKinds

RECURSIVE Repeat(_, _)
Repeat(s, n) == IF n = 0 THEN << >> ELSE s \o Repeat(s, n - 1)

\* create_eval_files(endpoint_name, model_outputs_file): the files are opened,
\* each line of the input file is turned into a payload, sent to the endpoint,
\* decoded and written out; an exception anywhere ends the function quietly.
CreateEvalFiles ==
    LET body == << Op("jsonlines.open", 293, {"OSError"}) >>
                \o Repeat(<< Op("create_payload", 297, {"ValueError"}),
                             Op("invoke_endpoint", 299, {"ClientError"}),
                             Op("json.loads", 300, {"JSONDecodeError", "KeyError"}),
                             Op("output_fh.write", 304, {"OSError"}) >>, EvalLines)
    IN  [j \in 1..Len(body) |-> Guarded(body[j], EvalFilesCatches, 0, Len(body) - j)]

QuantProgram ==
    << Op("build", 109, {"ClientError"}),
       Creating("deploy", 118, << "base_model", "base_endpoint_config", "base_endpoint" >>),
       Op("predict", 127, {"ClientError"}),
       Op("optimize", 161, {"ClientError"}),
       Creating("deploy", 180, << "quantized_model", "quantized_endpoint_config", "quantized_endpoint" >>),
       Op("predict", 189, {"ClientError"}),
       Op("predict", 224, {"ClientError"}) >>
    \o CreateEvalFiles \o CreateEvalFiles
    \o << Op("evaluate", 366, {"ClientError"}),
          Op("evaluate", 376, {"ClientError"}) >>

Notebooks == {"s2z", "multi_adapter", "nim_llama", "nim_mixtral", "tgi", "quant"}

Program(n) ==
    CASE n = "multi_adapter" -> MultiAdapterProgram
      [] n = "nim_llama"     -> NimLlamaProgram
      [] n = "nim_mixtral"   -> NimMixtralProgram
      [] n = "tgi"           -> TgiProgram
      [] n = "quant"         -> QuantProgram
      [] OTHER               -> << >>

\* The last cell of the notebook has run.
Finished ==
    /\ ~halted
    /\ IF nb = "s2z" THEN pc = "done" ELSE ip > Len(Program(nb))

\* The variables the multi-adapter notebook has assigned when it uploads and
\* updates the adapter.
MultiAdapterVars ==
    [ectsum_adapter_filename   |-> "ectsum-adapter.tar.gz",
     ectsum_adapter_s3_uri     |-> "s3://{bucket}/adapters/ectsum-adapter.tar.gz",
     new_ectsum_adapter_s3_uri |-> "s3://{bucket}/lora-adapters/new-ectsum-adapter.tar.gz"]

ectsum_adapter_local_path == "./adapters/ectsum-adapter/"

\* {name} in a shell line: the value of the variable, and the text as it
\* stands when no such variable is defined.
Expand(name) ==
    IF name \in DOMAIN MultiAdapterVars THEN MultiAdapterVars[name] ELSE name

\* ./{ectsum_adapter_filename}
Here(filename) ==
    IF filename = "ectsum-adapter.tar.gz" THEN "./ectsum-adapter.tar.gz" ELSE filename

S3Uris == {MultiAdapterVars[n] : n \in {"ectsum_adapter_s3_uri", "new_ectsum_adapter_s3_uri"}}

\* !aws s3 cp <src> <dst>: the object exists afterwards when the local file
\* exists and the destination is an S3 URI; a failing shell line raises
\* nothing.
S3Copy(src, dst) ==
    IF src \in files /\ dst \in S3Uris THEN objects \cup {dst} ELSE objects

\* What the working directory of a notebook may hold when its run starts: the
\* adapter directory, and an archive beside it.
WorkingDirectories(n) ==
    IF n = "multi_adapter"
       THEN SUBSET {ectsum_adapter_local_path, "./adapters/ectsum-adapter.tar.gz"}
       ELSE {{}}

\* What a call does to the kernel's variables, the store and the files.
Effect(op) ==
    CASE op.fx = "assign" ->
            /\ kernel' = [v \in StoreVars |->
                            IF v \in ConfigVars THEN SetVariables(nb)[v] ELSE kernel[v]]
            /\ UNCHANGED <<store, handed, adapters>>
      [] op.fx = "store" ->
            /\ store' = [v \in StoreVars |->
                            IF v \in StoredVariables(nb) THEN kernel[v] ELSE store[v]]
            /\ UNCHANGED <<kernel, handed, adapters>>
      [] op.fx = "run_base" ->
            /\ handed' = [v \in ConfigVars |-> store[v]]
            /\ UNCHANGED <<kernel, store, adapters>>
      [] op.fx = "base_store" ->
            /\ store' = [store EXCEPT !["endpoint_name"] = handed["sm_model_name"],
                                      !["endpoint_config_name"] = handed["sm_model_name"],
                                      !["sm_model_name"] = handed["sm_model_name"]]
            /\ UNCHANGED <<kernel, handed, adapters>>
      [] op.fx = "restore" ->
            /\ kernel' = [kernel EXCEPT !["endpoint_name"] = store["endpoint_name"],
                                        !["endpoint_config_name"] = store["endpoint_config_name"],
                                        !["sm_model_name"] = store["sm_model_name"]]
            /\ UNCHANGED <<store, handed, adapters>>
      [] op.fx = "tar" ->
            /\ files' = IF ectsum_adapter_local_path \in files
                            THEN files \cup {Here(Expand("ectsum_adapter_filename"))}
                            ELSE files
            /\ UNCHANGED <<kernel, store, handed, objects, artifact>>
      [] op.fx = "cp_adapter" ->
            /\ objects' = S3Copy(Here(Expand("ectsum_adapter_filename")),
                                  Expand("ectsum_adapter_s3_uri"))
            /\ UNCHANGED <<kernel, store, handed, files, artifact>>
      [] op.fx = "create_adapter" ->
            /\ artifact' = Expand("ectsum_adapter_s3_uri")
            /\ UNCHANGED <<kernel, store, handed, files, objects>>
      [] op.fx = "cp_new_adapter" ->
            /\ objects' = S3Copy("./adapters/ectsum-adapter.tar.gz",
                                  Expand("new_prt_adapter_s3_uri"))
            /\ UNCHANGED <<kernel, store, handed, files, artifact>>
      [] op.fx = "update_adapter" ->
            /\ artifact' = Expand("new_ectsum_adapter_s3_uri")
            /\ UNCHANGED <<kernel, store, handed, files, objects>>
      [] OTHER -> UNCHANGED <<kernel, store, handed, adapters>>

\* The next call of the program returns.
StepOk ==
    /\ Running /\ nb # "s2z" /\ ip <= Len(Program(nb))
    /\ LET op == Program(nb)[ip]
       IN  /\ LogCall(op.api, "ok", "none", op.creates, op.deletes)
           /\ ip' = ip + 1 + op.okSkip
           /\ Effect(op)
    /\ UNCHANGED <<nb, pc, halted, interrupted, status, sleeps, stepArn, reruns, platform, inputs, load,
                   stream>>

\* The next call of the program raises: a handler that catches the exception
\* lets the program go on behind the try statement, otherwise the exception
\* leaves the cell and stops the run.
StepRaise ==
    /\ Running /\ nb # "s2z" /\ ip <= Len(Program(nb))
    /\ LET op == Program(nb)[ip]
       IN  \E e \in op.raises :
              IF e \in op.catches
                 THEN /\ LogCall(op.api, "caught", e, << >>, op.deletes)
                      /\ ip' = ip + 1 + op.catchSkip
                      /\ UNCHANGED <<halted, interrupted>>
                 ELSE /\ LogCall(op.api, "raised", e, << >>, op.deletes)
                      /\ ip' = ip
                      /\ Raise
    /\ UNCHANGED <<nb, pc, status, sleeps, stepArn, reruns, platform, kernel, store, handed,
                   adapters, inputs, load, stream>>

FreshKernel == [v \in StoreVars |-> Unset]

NothingHanded == [v \in ConfigVars |-> Unset]

\* After a run of a NIM notebook the reader opens a NIM notebook in a new
\* kernel; the store is what the earlier runs left.
OpenNimNotebook ==
    /\ nb \in NimNotebooks
    /\ halted \/ ip > Len(Program(nb))
    /\ \E n \in NimNotebooks : nb' = n
    /\ ip' = 1
    /\ halted' = FALSE /\ interrupted' = FALSE
    /\ calls' = << >>
    /\ kernel' = FreshKernel /\ handed' = NothingHanded
    /\ UNCHANGED <<pc, status, sleeps, stepArn, reruns, platform, store, adapters, inputs, load, stream>>

----------------------------------------------------------------------------
(* The stream post-processors.  A text is a sequence of pieces; a marker is *)
(* two pieces long, so that an event can end in the middle of a marker.     *)

\* start_marker = 'data:'
start_marker == << "da", "ta:" >>

\* end_marker = '"finish_reason":null}]}'
end_marker == << "\"finish_reason\":nu", "ll}]}" >>

\* The first position at which m occurs in s, 0 when it does not: str.find + 1
Find(m, s) ==
    LET hits == {i \in 1..(Len(s) - Len(m) + 1) : SubSeq(s, i, i + Len(m) - 1) = m}
    IN  IF hits = {} THEN 0 ELSE CHOOSE i \in hits : \A j \in hits : i <= j

\* What stands between 'data:' and the end marker of a NIM message:
\* {"choices":[{"delta":{"content":"a"},  with some content, with empty
\* content, and with a delta that is a string instead of an object.
NimHeads == {"{content:a,", "{content:b,", "{content:,", "{delta:str,"}

\* A head whose content is one character of two bytes, U+00E9: the piece
\* that ends with its first byte and the piece that begins with its second.
WideHead == << "{content:\\xc3", "\\xa9," >>

\* json.loads(full_response) succeeds on one head followed by the end marker.
NimDecodable(text) ==
    \/ /\ Len(text) = 1 + Len(end_marker)
       /\ text[1] \in NimHeads
       /\ SubSeq(text, 2, Len(text)) = end_marker
    \/ text = WideHead \o end_marker

\* data.get('choices', [{}])[0].get('delta', {}).get('content', "") raises
\* AttributeError when the delta is no object.
NimContentRaises(text) == text[1] = "{delta:str,"

NimContent(text) ==
    CASE text[1] = "{content:a," -> "a"
      [] text[1] = "{content:b," -> "b"
      [] text[1] = WideHead[1]   -> "\\xc3\\xa9"
      [] OTHER                   -> ""

\* payload.decode('utf-8') raises UnicodeDecodeError on an invalid byte, and
\* on a payload that holds one byte of a two-byte character without the other.
Undecodable(payload) ==
    \E i \in DOMAIN payload :
        \/ payload[i] = "\\xff"
        \/ payload[i] = WideHead[1] /\ (i = Len(payload) \/ payload[i + 1] # WideHead[2])
        \/ payload[i] = WideHead[2] /\ (i = 1 \/ payload[i - 1] # WideHead[1])

\* while start_marker in accumulated_data and end_marker in accumulated_data:
\* the loop of one event, from the text accumulated so far and the output
\* printed so far; raised tells that an exception left the loop.
RECURSIVE Drain(_, _)
Drain(acc, out) ==
    IF Find(start_marker, acc) = 0 \/ Find(end_marker, acc) = 0
       THEN [acc |-> acc, out |-> out, raised |-> FALSE]
       ELSE LET start_idx == Find(start_marker, acc)
                end_idx == Find(end_marker, acc) + Len(end_marker) - 1
                full_response == SubSeq(acc, start_idx + Len(start_marker), end_idx)
                rest == SubSeq(acc, end_idx + 1, Len(acc))
            IN  IF ~NimDecodable(full_response)
                   THEN Drain(rest, out)
                   ELSE IF NimContentRaises(full_response)
                           THEN [acc |-> rest, out |-> out, raised |-> TRUE]
                           ELSE Drain(rest, IF NimContent(full_response) # ""
                                               THEN Append(out, NimContent(full_response))
                                               ELSE out)

\* One iteration of `for event in event_stream:` of the NIM notebooks; the
\* event carries the next pieces of the wire, cut anywhere.
NimEvent ==
    /\ parser = "nim" /\ wire # << >>
    /\ \E n \in 1..Len(wire) :
          LET payload == SubSeq(wire, 1, n)
              r == Drain(accumulated_data \o payload, printed)
          IN  /\ wire' = SubSeq(wire, n + 1, Len(wire))
              /\ IF Undecodable(payload)
                    THEN /\ errors' = errors + 1
                         /\ UNCHANGED <<accumulated_data, printed>>
                    ELSE /\ accumulated_data' = r.acc
                         /\ printed' = r.out
                         /\ errors' = IF r.raised THEN errors + 1 ELSE errors
    /\ UNCHANGED <<parser, msgs, token_count, first_token_received, entered, iterations>>
    /\ UNCHANGED <<pc, halted, interrupted, status, sleeps, stepArn, reruns, calls,
                   platform, nb, ip, kernel, store, handed, adapters, inputs, load>>

\* The chunks TGI sends after 'data: ': a token, the final chunk without a
\* token, and text that is no JSON.
TgiDecodable(text) ==
    text \in { << "{token:{text:a}}" >>, << "{token:{text:b}}" >>, << "{generated_text}" >> }

TgiHasToken(text) == text \in { << "{token:{text:a}}" >>, << "{token:{text:b}}" >> }

TgiTokenText(text) == IF text = << "{token:{text:a}}" >> THEN "a" ELSE "b"

\* One iteration of `for event in response['Body']:` of the TGI notebook.
TgiEvent ==
    /\ parser = "tgi" /\ wire # << >>
    /\ LET line == Head(wire)
           text == SubSeq(line, 2, Len(line))
       IN  /\ wire' = Tail(wire)
           /\ IF Len(line) >= 1 /\ line[1] = "data: " /\ TgiDecodable(text) /\ TgiHasToken(text)
                 THEN /\ token_count' = token_count + 1
                      /\ first_token_received' = TRUE
                      /\ printed' = Append(printed, TgiTokenText(text))
                 ELSE UNCHANGED <<token_count, first_token_received, printed>>
    /\ UNCHANGED <<parser, msgs, accumulated_data, errors, entered, iterations>>
    /\ UNCHANGED <<pc, halted, interrupted, status, sleeps, stepArn, reruns, calls,
                   platform, nb, ip, kernel, store, handed, adapters, inputs, load>>

----------------------------------------------------------------------------
(* The OpenSearchPassword parameter of the CloudFormation templates *)

\* The kinds of character the pattern tells apart: \d, [A-Z], [a-z] and
\* [^A-Za-z0-9].  A password is how many characters of each kind it has; the
\* pattern looks at nothing else.
CharClasses == {"digit", "upper", "lower", "symbol"}

NoPassword == [c \in CharClasses |-> 0]

PasswordLength(p) == p["digit"] + p["upper"] + p["lower"] + p["symbol"]

\* (?=.*\d), (?=.*[A-Z]), (?=.*[a-z]), (?=.*[^A-Za-z0-9])
Has(p, c) == p[c] > 0

\* (?=^.{8,32}$)
LengthLookahead(p) == 8 <= PasswordLength(p) /\ PasswordLength(p) <= 32

\* AllowedPattern of OpenSearchPassword: the length, and one of the four
\* alternatives of three lookaheads each.
AllowedPattern(p) ==
    /\ LengthLookahead(p)
    /\ \/ Has(p, "digit") /\ Has(p, "upper") /\ Has(p, "lower")
       \/ Has(p, "digit") /\ Has(p, "symbol") /\ Has(p, "lower")
       \/ Has(p, "symbol") /\ Has(p, "upper") /\ Has(p, "lower")
       \/ Has(p, "digit") /\ Has(p, "upper") /\ Has(p, "symbol")

MinLength == 8

MaxLength == 32

\* The create_payload cell: the default of `parameters` is one dict, made
\* when the def statement runs.
DefaultParameters == [max_new_tokens |-> 128, top_p |-> "0.9", temperature |-> "0.6"]

\* `parameters` not given in the call
Omitted == [omitted |-> TRUE]

NoCall == [n |-> 0, prompt |-> << >>, parameters |-> Omitted, raised |-> "none",
           payload |-> << >>]

NoInputs ==
    /\ password = NoPassword /\ verdict = "none"
    /\ parameters_default = DefaultParameters /\ call = NoCall

\* No notebook runs and no response is streamed.
NoNotebook ==
    /\ nb = "none" /\ pc = "none" /\ ip = 1
    /\ kernel = FreshKernel /\ store = FreshKernel /\ handed = NothingHanded
    /\ files = {} /\ objects = {} /\ artifact = "none"
    /\ load = FALSE
    /\ parser = "none" /\ msgs = << >> /\ wire = << >>
    /\ accumulated_data = << >> /\ printed = << >> /\ errors = 0
    /\ token_count = 0 /\ first_token_received = FALSE
    /\ entered = << >> /\ iterations = 0
    /\ halted = FALSE /\ interrupted = FALSE
    /\ status = "none" /\ sleeps = 0 /\ stepArn = << >> /\ reruns = 0
    /\ calls = << >>
    /\ epStatus = "None" /\ icStatus = "None"
    /\ desired = 0 /\ current = 0 /\ instances = 0
    /\ target = NoTarget /\ policies = << >>
    /\ alarm = NoAlarm /\ alarmState = "OK" /\ failures = 0

notebooks == <<pc, halted, interrupted, status, sleeps, stepArn, reruns, calls, platform,
               nb, ip, kernel, store, handed, adapters, load, stream>>

\* The user of the template types one more character of the password.
TypeCharacter ==
    /\ PasswordLength(password) < MaxPasswordLength
    /\ \E c \in CharClasses : password' = [password EXCEPT ![c] = @ + 1]
    /\ verdict' = "none"
    /\ UNCHANGED <<parameters_default, call, notebooks>>

\* CloudFormation validates the parameter: MinLength, MaxLength, AllowedPattern.
ValidateParameter ==
    /\ verdict = "none"
    /\ verdict' = IF /\ MinLength <= PasswordLength(password)
                     /\ PasswordLength(password) <= MaxLength
                     /\ AllowedPattern(password)
                     THEN "accepted" ELSE "rejected"
    /\ UNCHANGED <<password, parameters_default, call, notebooks>>

\* No value has been typed for the parameter.
TemplateInit ==
    /\ password = NoPassword /\ verdict = "none"
    /\ parameters_default = DefaultParameters /\ call = NoCall
    /\ NoNotebook

TemplateNext == TypeCharacter \/ ValidateParameter

TemplateSpec == TemplateInit /\ [][TemplateNext]_vars

----------------------------------------------------------------------------
(* create_payload of the quantization notebook *)

Prompts == UNION {[1 .. n -> {"q", "r"}] : n \in 0 .. MaxPromptLen}

ParameterDicts ==
    {DefaultParameters, [max_new_tokens |-> 64, top_p |-> "0.5", temperature |-> "0.1"]}

create_payload_raising_on_short(prompt, parameters) ==
    IF Len(prompt) <= 1
       THEN [raised |-> "ValueError", payload |-> << >>]
       ELSE [raised |-> "none", payload |-> [inputs |-> prompt, parameters |-> parameters]]

\* def create_payload(prompt, parameters = {...})
create_payload(prompt, parameters) ==
    IF Len(prompt) = 0
       THEN [raised |-> "ValueError", payload |-> << >>]
       ELSE [raised |-> "none", payload |-> [inputs |-> prompt, parameters |-> parameters]]

\* A call of create_payload, with `parameters` given or omitted.  The body
\* reads the default dict and writes nothing into it; the caller of the
\* notebook passes the payload to json.dumps, which writes nothing either.
CallCreatePayload ==
    /\ call.n < MaxCalls
    /\ \E prompt \in Prompts, given \in ParameterDicts \cup {Omitted} :
          LET parameters == IF given = Omitted THEN parameters_default ELSE given
              out == create_payload(prompt, parameters)
          IN  call' = [n |-> call.n + 1, prompt |-> prompt, parameters |-> given,
                       raised |-> out.raised, payload |-> out.payload]
    /\ UNCHANGED <<parameters_default, password, verdict, notebooks>>

\* The def statement has run and create_payload has not been called.
PayloadInit ==
    /\ parameters_default = DefaultParameters /\ call = NoCall
    /\ password = NoPassword /\ verdict = "none"
    /\ NoNotebook

PayloadSpec == PayloadInit /\ [][CallCreatePayload]_vars

\* What an endpoint can put on the wire, message by message.
NimMessage(kind) ==
    CASE kind = "a"         -> start_marker \o << "{content:a," >> \o end_marker
      [] kind = "b"         -> start_marker \o << "{content:b," >> \o end_marker
      [] kind = "\\xc3\\xa9"  -> start_marker \o WideHead \o end_marker
      [] kind = "empty"     -> start_marker \o << "{content:," >> \o end_marker
      [] kind = "malformed" -> start_marker \o << "x" >> \o end_marker
      [] kind = "truncated" -> start_marker \o << "x" >>
      [] kind = "bad_delta" -> start_marker \o << "{delta:str," >> \o end_marker
      [] OTHER              -> << "\\xff" >>

NimKinds == {"a", "b", "\\xc3\\xa9", "empty", "malformed", "truncated", "bad_delta", "bad_bytes"}

TgiMessage(kind) ==
    CASE kind = "a"         -> << "data: ", "{token:{text:a}}" >>
      [] kind = "b"         -> << "data: ", "{token:{text:b}}" >>
      [] kind = "final"     -> << "data: ", "{generated_text}" >>
      [] kind = "malformed" -> << "data: ", "{token:{te" >>
      [] OTHER              -> << ":" >>

TgiKinds == {"a", "b", "final", "malformed", "comment"}

RECURSIVE Flatten(_)
Flatten(ss) == IF ss = << >> THEN << >> ELSE Head(ss) \o Flatten(Tail(ss))

Streams(kinds) == UNION {[1..n -> kinds] : n \in 0..MaxMessages}

\* The notebook variables of a streaming cell before its loop, for a response
\* of at most MaxMessages messages.
StreamInit ==
    /\ parser \in {"tgi", "nim"}
    /\ msgs \in Streams(IF parser = "tgi" THEN TgiKinds ELSE NimKinds)
    /\ wire = IF parser = "tgi"
                 THEN [i \in DOMAIN msgs |-> TgiMessage(msgs[i])]
                 ELSE Flatten([i \in DOMAIN msgs |-> NimMessage(msgs[i])])
    /\ accumulated_data = << >> /\ printed = << >> /\ errors = 0
    /\ token_count = 0 /\ first_token_received = FALSE
    /\ entered = << >> /\ iterations = 0
    /\ nb = (IF parser = "tgi" THEN "tgi" ELSE "nim_llama")
    /\ pc = "none" /\ ip = 1
    /\ kernel = FreshKernel /\ store = FreshKernel /\ handed = NothingHanded
    /\ files = {} /\ objects = {} /\ artifact = "none"
    /\ NoInputs
    /\ load = FALSE
    /\ halted = FALSE /\ interrupted = FALSE
    /\ status = "none" /\ sleeps = 0 /\ stepArn = << >> /\ reruns = 0
    /\ calls = << >>
    /\ epStatus = "None" /\ icStatus = "None"
    /\ desired = 0 /\ current = 0 /\ instances = 0
    /\ target = NoTarget /\ policies = << >>
    /\ alarm = NoAlarm /\ alarmState = "OK" /\ failures = 0

StreamNext == NimEvent \/ TgiEvent

StreamSpec == StreamInit /\ [][StreamNext]_vars

\* The ways of cutting a text into consecutive, non-empty PayloadPart events.
RECURSIVE Chunkings(_)
Chunkings(s) ==
    IF s = << >>
       THEN {<< >>}
       ELSE UNION {{<< SubSeq(s, 1, n) >> \o c : c \in Chunkings(SubSeq(s, n + 1, Len(s)))}
                     : n \in 1 .. Len(s)}

\* The TGI streaming cell before its loop, for a response of at most
\* MaxMessages messages that reaches the client in any chunking.
TgiChunkedInit ==
    /\ parser = "tgi"
    /\ msgs \in Streams(TgiKinds)
    /\ wire \in Chunkings(Flatten([i \in DOMAIN msgs |-> TgiMessage(msgs[i])]))
    /\ accumulated_data = << >> /\ printed = << >> /\ errors = 0
    /\ token_count = 0 /\ first_token_received = FALSE
    /\ entered = << >> /\ iterations = 0
    /\ nb = "tgi" /\ pc = "none" /\ ip = 1
    /\ kernel = FreshKernel /\ store = FreshKernel /\ handed = NothingHanded
    /\ files = {} /\ objects = {} /\ artifact = "none"
    /\ NoInputs
    /\ load = FALSE
    /\ halted = FALSE /\ interrupted = FALSE
    /\ status = "none" /\ sleeps = 0 /\ stepArn = << >> /\ reruns = 0
    /\ calls = << >>
    /\ epStatus = "None" /\ icStatus = "None"
    /\ desired = 0 /\ current = 0 /\ instances = 0
    /\ target = NoTarget /\ policies = << >>
    /\ alarm = NoAlarm /\ alarmState = "OK" /\ failures = 0

TgiChunkedSpec == TgiChunkedInit /\ [][TgiEvent]_vars

----------------------------------------------------------------------------
(* The inner while loop of the NIM post-processor, iteration by iteration *)

\* The pieces a buffer is made of: those of the two markers and two heads.
BufferPieces ==
    {start_marker[1], start_marker[2], end_marker[1], end_marker[2],
     "{content:a,", "{delta:str,"}

\* accumulated_data after `accumulated_data += data_str`: any text of at most
\* MaxBuffer pieces.
Buffers == UNION {[1 .. n -> BufferPieces] : n \in 0 .. MaxBuffer}

\* while start_marker in accumulated_data and end_marker in accumulated_data:
WhileCondition(acc) == Find(start_marker, acc) # 0 /\ Find(end_marker, acc) # 0

Cut_from_start_marker(acc) ==
    LET start_idx == Find(start_marker, acc)
        end_idx == Find(end_marker, acc) + Len(end_marker) - 1
    IN  [full_response |-> SubSeq(acc, start_idx + Len(start_marker), end_idx),
         rest |-> SubSeq(acc, start_idx, Len(acc))]

\* start_idx, end_idx, full_response and the new accumulated_data of one
\* iteration.
Cut(acc) ==
    LET start_idx == Find(start_marker, acc)
        end_idx == Find(end_marker, acc) + Len(end_marker) - 1
    IN  [full_response |-> SubSeq(acc, start_idx + Len(start_marker), end_idx),
         rest |-> SubSeq(acc, end_idx + 1, Len(acc))]

\* The loop is entered with some buffer.
WhileInit ==
    /\ parser = "nim" /\ nb = "nim_llama" /\ pc = "nim_while"
    /\ entered \in Buffers /\ accumulated_data = entered /\ iterations = 0
    /\ msgs = << >> /\ wire = << >> /\ printed = << >> /\ errors = 0
    /\ token_count = 0 /\ first_token_received = FALSE
    /\ ip = 1
    /\ kernel = FreshKernel /\ store = FreshKernel /\ handed = NothingHanded
    /\ files = {} /\ objects = {} /\ artifact = "none"
    /\ password = NoPassword /\ verdict = "none"
    /\ parameters_default = DefaultParameters /\ call = NoCall
    /\ load = FALSE
    /\ halted = FALSE /\ interrupted = FALSE
    /\ status = "none" /\ sleeps = 0 /\ stepArn = << >> /\ reruns = 0
    /\ calls = << >>
    /\ epStatus = "None" /\ icStatus = "None"
    /\ desired = 0 /\ current = 0 /\ instances = 0
    /\ target = NoTarget /\ policies = << >>
    /\ alarm = NoAlarm /\ alarmState = "OK" /\ failures = 0

\* One iteration of the while loop: the buffer is cut behind the first end
\* marker; text that json.loads rejects is dropped by `continue`, a content
\* is printed, and an exception of data.get(...) leaves the loop for the
\* handler of the event.
WhileIteration ==
    /\ parser = "nim" /\ pc = "nim_while"
    /\ WhileCondition(accumulated_data)
    /\ LET c == Cut(accumulated_data)
       IN  /\ accumulated_data' = c.rest
           /\ iterations' = iterations + 1
           /\ IF ~NimDecodable(c.full_response)
                 THEN UNCHANGED <<pc, printed, errors>>
                 ELSE IF NimContentRaises(c.full_response)
                         THEN /\ pc' = "nim_done"
                              /\ errors' = errors + 1
                              /\ UNCHANGED printed
                         ELSE /\ printed' = IF NimContent(c.full_response) # ""
                                               THEN Append(printed, NimContent(c.full_response))
                                               ELSE printed
                              /\ UNCHANGED <<pc, errors>>
    /\ UNCHANGED <<parser, msgs, wire, token_count, first_token_received, entered>>
    /\ UNCHANGED <<halted, interrupted, status, sleeps, stepArn, reruns, calls,
                   platform, nb, ip, kernel, store, handed, adapters, inputs, load>>

\* The condition of the while loop is false: the loop is left.
WhileExit ==
    /\ parser = "nim" /\ pc = "nim_while"
    /\ ~WhileCondition(accumulated_data)
    /\ pc' = "nim_done"
    /\ UNCHANGED <<parser, msgs, wire, accumulated_data, printed, errors, token_count,
                   first_token_received, entered, iterations>>
    /\ UNCHANGED <<halted, interrupted, status, sleeps, stepArn, reruns, calls,
                   platform, nb, ip, kernel, store, handed, adapters, inputs, load>>

WhileNext == WhileIteration \/ WhileExit

WhileSpec == WhileInit /\ [][WhileNext]_vars

\* The interpreter goes on executing the loop.
WhileFairSpec == WhileSpec /\ WF_vars(WhileNext)


----------------------------------------------------------------------------
(* Requests of other clients, and the scale-out they make the target-      *)
(* tracking policy do                                                      *)

LoadStarts ==
    /\ epStatus = "InService" /\ ~load
    /\ load' = TRUE
    /\ UNCHANGED <<pc, halted, interrupted, status, sleeps, stepArn, reruns, calls,
                   platform, nb, ip, kernel, store, handed, adapters, inputs, stream>>

LoadStops ==
    /\ load
    /\ load' = FALSE
    /\ UNCHANGED <<pc, halted, interrupted, status, sleeps, stepArn, reruns, calls,
                   platform, nb, ip, kernel, store, handed, adapters, inputs, stream>>

\* TargetValue 5 on ConcurrentRequestsPerCopy: capacity is increased, up to
\* MaxCapacity, while the requests per copy reach the target.  A component
\* without copies serves no request, so the metric cannot scale it out.
TargetTrackingScaleOut ==
    /\ target.registered /\ HasPolicy("TargetTrackingScaling")
    /\ load
    /\ icStatus = "InService" /\ current = desired
    /\ desired >= 1 /\ desired < target.max
    /\ \E d \in (desired + 1) .. target.max : desired' = d
    /\ icStatus' = "Updating"
    /\ UNCHANGED <<local, calls, epStatus, current, instances, target, policies,
                   alarm, alarmState, failures>>

Clients == LoadStarts \/ LoadStops \/ TargetTrackingScaleOut

----------------------------------------------------------------------------

Init ==
    /\ nb \in Notebooks
    /\ pc = IF nb = "s2z" THEN "create_endpoint_config" ELSE "none"
    /\ ip = 1
    /\ kernel = FreshKernel /\ store = FreshKernel /\ handed = NothingHanded
    /\ files \in WorkingDirectories(nb) /\ objects = {} /\ artifact = "none"
    /\ NoInputs
    /\ load = FALSE
    /\ parser = "none" /\ msgs = << >> /\ wire = << >>
    /\ accumulated_data = << >> /\ printed = << >> /\ errors = 0
    /\ token_count = 0 /\ first_token_received = FALSE
    /\ entered = << >> /\ iterations = 0
    /\ halted = FALSE /\ interrupted = FALSE
    /\ status = "none" /\ sleeps = 0 /\ stepArn = <<>> /\ reruns = 0
    /\ calls = <<>>
    /\ epStatus = "None" /\ icStatus = "None"
    /\ desired = 0 /\ current = 0 /\ instances = 0
    /\ target = NoTarget /\ policies = <<>>
    /\ alarm = NoAlarm /\ alarmState = "OK" /\ failures = 0

Notebook ==
    \/ CreateEndpointConfig \/ CreateEndpoint
    \/ EpDescribe \/ EpCheck
    \/ Deploy \/ TestInvoke
    \/ RegisterScalableTarget \/ PutTargetTrackingPolicy \/ PutStepScalingPolicy
    \/ DescribePolicies \/ PutMetricAlarm
    \/ SleepBeforeScaleInLoop \/ InDescribe \/ InCheck
    \/ WaitForEndpoint \/ ZeroInvoke
    \/ OutDescribe \/ OutCheck \/ VerifyInvoke
    \/ DeregisterScalableTarget \/ DeleteAlarms \/ DeleteScalingPolicy
    \/ DeleteInferenceComponent \/ DeleteEndpoint \/ DeleteEndpointConfig
    \/ StepOk \/ StepRaise

Reader == Resume \/ RerunCleanup \/ OpenNimNotebook

Platform ==
    \/ EndpointInService \/ EndpointFailed
    \/ TargetTrackingScaleIn \/ ScaleInCompletes \/ InstancesScaleIn
    \/ AlarmEvaluate \/ StepScalingAction \/ ScaleOutCompletes

Next == Notebook \/ Reader \/ Platform

Spec == Init /\ [][Next]_vars

\* The kernel runs the cells it is given; the platform evaluates its alarm,
\* executes the alarm's scaling action and completes the updates it starts.
FairSpec ==
    /\ Spec
    /\ WF_vars(Notebook)
    /\ WF_vars(AlarmEvaluate) /\ WF_vars(StepScalingAction)
    /\ WF_vars(ScaleOutCompletes) /\ WF_vars(ScaleInCompletes)

\* Notebook runs on an endpoint that other clients use as well.
ScalingSpec == Init /\ [][Next \/ Clients]_vars

\* Moreover an idle component is scaled in by its target-tracking policy, and
\* a variant without copies gives up its instances.
IdleFairSpec ==
    /\ FairSpec
    /\ WF_vars(TargetTrackingScaleIn) /\ WF_vars(InstancesScaleIn)

\* An uninterrupted run from the first cell to the last: the kernel executes
\* cell after cell and stops at the first cell that raises; no reader runs a
\* cell by hand.
RunAllNext == Notebook \/ Platform

RunAllSpec == Init /\ [][RunAllNext]_vars

RunAllFairSpec ==
    /\ RunAllSpec
    /\ WF_vars(Notebook)
    /\ WF_vars(AlarmEvaluate) /\ WF_vars(StepScalingAction)
    /\ WF_vars(ScaleOutCompletes) /\ WF_vars(ScaleInCompletes)

----------------------------------------------------------------------------
(* Properties of the scale-to-zero notebook *)

\* The three polling loops: the statement that reads the status, the statement
\* that tests it, and the first statement after the loop.
Loops ==
    { [describe |-> "ep_describe",  check |-> "ep_check",  after |-> "deploy"],
      [describe |-> "in_describe",  check |-> "in_check",  after |-> "wait_endpoint"],
      [describe |-> "out_describe", check |-> "out_check", after |-> "verify_invoke"] }

PlatformStatus(L) == IF L.describe = "ep_describe" THEN epStatus ELSE icStatus

InLoop(L) == ~halted /\ pc \in {L.describe, L.check}

\* C1: every polling loop exits exactly when the status it has just read is
\* "InService" or "Failed"; on any other value it sleeps and reads again, so
\* the status last observed on exit is one of those two values.
C1_PollExitsOnTerminalStatus ==
    /\ [](\A L \in Loops : pc = L.after => status \in {"InService", "Failed"})
    /\ [][\A L \in Loops :
            (pc = L.check /\ pc' # pc) =>
                IF status \in {"InService", "Failed"}
                   THEN pc' = L.after /\ sleeps' = sleeps
                   ELSE pc' = L.describe /\ sleeps' >= sleeps]_vars

\* A loop has been left after at least one sleep, on a status read later.
C1_Witness ==
    pc = "verify_invoke" /\ sleeps >= 1 /\ status = "InService"

\* C2 (as claimed): the steps after the wait step are executed only for an
\* endpoint whose last observed status is InService, never Failed.
C2_StepsOnlyForInServiceEndpoint ==
    (pc = "test_invoke" /\ Len(calls) > 0 /\ calls[Len(calls)].api = "deploy")
        => status = "InService"

\* C3: a polling loop has no timeout: it is left only on a status read as
\* InService or Failed, each read returns the status the platform has at that
\* moment, and a loop whose resource stays in one of the two statuses is left
\* after finitely many sleeps.
C3_PollTerminatesIffTerminalStatus ==
    /\ [][\A L \in Loops :
            /\ (pc = L.describe /\ pc' # pc) => (pc' = L.check /\ status' = PlatformStatus(L))
            /\ (InLoop(L) /\ ~InLoop(L)') => (pc = L.check /\ status \in {"InService", "Failed"})]_vars
    /\ \A L \in Loops :
            [](InLoop(L) => <>(~InLoop(L) \/ PlatformStatus(L) \notin {"InService", "Failed"}))

\* The endpoint loop has been left after as many sleeps as the model counts.
C3_Witness ==
    pc = "deploy" /\ sleeps = MaxSleeps /\ status \in {"InService", "Failed"}

CleanupOrder ==
    << "deregister_scalable_target", "delete_alarms", "delete_scaling_policy" >>

CleanupIndex(api) == CHOOSE k \in 1..3 : CleanupOrder[k] = api

CleanupPc == << "cl_dereg", "cl_alarm", "cl_policy", "del_ic" >>

\* C6: in the clean-up cell a not-found answer of any of the three steps is
\* caught: the steps are attempted in the order deregister, delete alarm,
\* delete policy, each one after the previous one succeeded or reported
\* not-found, and the cell then completes without raising.
C6_NotFoundIsCaught ==
    \A i \in DOMAIN calls :
        (\E k \in 1..3 : calls[i].api = CleanupOrder[k]) =>
            LET k == CleanupIndex(calls[i].api)
            IN  /\ k > 1 => (i > 1 /\ calls[i-1].api = CleanupOrder[k-1]
                                   /\ calls[i-1].out \in {"ok", "not_found"})
                /\ calls[i].out \in {"ok", "not_found"} =>
                      IF i < Len(calls)
                         THEN k < 3 => calls[i+1].api = CleanupOrder[k+1]
                         ELSE ~halted /\ (pc = CleanupPc[k+1] \/ (k = 3 /\ pc = "cl_dereg"))

\* The cell has completed with all three steps answering not-found.
C6_Witness ==
    /\ pc = "del_ic" /\ ~halted /\ Len(calls) >= 3
    /\ \A k \in 1..3 : /\ calls[Len(calls) - 3 + k].api = CleanupOrder[k]
                       /\ calls[Len(calls) - 3 + k].out = "not_found"

Configured ==
    /\ alarm.exists /\ target.registered
    /\ \E i \in DOMAIN policies : policies[i].name = step_scaling_policy_name
    /\ icStatus \in {"InService", "Updating"}

----------------------------------------------------------------------------
(* Properties of the resources the notebooks create and delete *)

Elems(s) == {s[i] : i \in DOMAIN s}

CreatedAt(r) == {i \in DOMAIN calls : r \in Elems(calls[i].creates)}

DeletedAt(r) == {i \in DOMAIN calls : r \in Elems(calls[i].deletes)}

Created == UNION {Elems(calls[i].creates) : i \in DOMAIN calls}

First(S) == CHOOSE i \in S : \A j \in S : i <= j

\* a was created by an earlier call than b, and a delete call was issued for both
CreatedBeforeAndDeleted(a, b) ==
    /\ CreatedAt(a) # {} /\ CreatedAt(b) # {}
    /\ First(CreatedAt(a)) < First(CreatedAt(b))
    /\ DeletedAt(a) # {} /\ DeletedAt(b) # {}

\* The resources that host a model: model, endpoint configuration, endpoint,
\* inference component, adapter component.
HostingResources ==
    {"model", "endpoint_config", "endpoint", "inference_component",
     "base_inference_component", "adapter_inference_component"}

ReverseCreationOrder ==
    \A a, b \in Created \cap HostingResources :
        CreatedBeforeAndDeleted(a, b) => First(DeletedAt(b)) < First(DeletedAt(a))

CreationOrder ==
    \A a, b \in Created \cap HostingResources :
        CreatedBeforeAndDeleted(a, b) => First(DeletedAt(a)) < First(DeletedAt(b))

C5_EveryResourceTornDown ==
    Finished => \A r \in Created : DeletedAt(r) # {}

----------------------------------------------------------------------------
(* Properties of the exception handlers *)

Swallowed(c) == c.out \in {"caught", "not_found"}

Propagated(c) == c.out \in {"raised", "error", "no_capacity"}

NotFoundOnCleanup(c) ==
    c.out = "not_found" /\ \E k \in 1..3 : c.api = CleanupOrder[k]

StreamDecodeFailure(c) ==
    c.out = "caught" /\ c.api = "process_event" /\ c.exc = "JSONDecodeError"

\* C8 (as claimed): the only failures that are swallowed are not-found on the
\* deregistration / clean-up calls and JSON decode failures of streamed
\* fragments.
C8_OnlyNotFoundAndDecodeSwallowed ==
    \A i \in DOMAIN calls :
        Swallowed(calls[i]) => NotFoundOnCleanup(calls[i]) \/ StreamDecodeFailure(calls[i])

\* C8 (amended): a failure is swallowed only when it is a not-found of a
\* clean-up call, a JSON decode failure of a streamed fragment, any exception
\* of the NIM event loop, a ValueError of the execution-role lookup, or any
\* exception inside create_eval_files; every other failure of a call stops the
\* run.
C8_SwallowedFailures ==
    /\ [](\A i \in DOMAIN calls :
            Swallowed(calls[i]) =>
                \/ NotFoundOnCleanup(calls[i])
                \/ StreamDecodeFailure(calls[i])
                \/ nb \in NimNotebooks /\ calls[i].api = "process_event"
                \/ nb = "tgi" /\ calls[i].api = "get_execution_role" /\ calls[i].exc = "ValueError"
                \/ nb = "quant" /\ calls[i].api \in {"jsonlines.open", "create_payload",
                                                     "invoke_endpoint", "json.loads",
                                                     "output_fh.write"})
    /\ [][(Len(calls') = Len(calls) + 1 /\ ~Swallowed(calls'[Len(calls')])
             /\ calls'[Len(calls')].out # "ok")
            => (Propagated(calls'[Len(calls')]) /\ halted')]_vars

\* The TGI notebook has run to its end after the ValueError of the role lookup
\* was caught and the role was read from IAM instead.
C8_Witness ==
    /\ nb = "tgi" /\ Finished
    /\ calls[1].api = "get_execution_role" /\ calls[1].out = "caught"
    /\ calls[2].api = "get_role" /\ calls[2].out = "ok"

----------------------------------------------------------------------------
(* Properties of the NIM notebooks' use of the store *)

AtRunBase ==
    /\ nb \in NimNotebooks /\ ~halted
    /\ ip <= Len(Program(nb)) /\ Program(nb)[ip].fx = "run_base"

\* C9 (as claimed): when a NIM notebook runs the base notebook, the store holds
\* for every variable of its "Set Variables" cell the value assigned there,
\* whatever earlier runs left in the store.
C9_ConfigurationStoredBeforeBase ==
    AtRunBase => \A v \in ConfigVars : store[v] = SetVariables(nb)[v]

----------------------------------------------------------------------------
(* Properties of the stream post-processors *)

\* The texts of the well-formed messages of a response that carry text.
ExpectedPrinted(kinds) == SelectSeq(kinds, LAMBDA k : k \in {"a", "b", "\\xc3\\xa9"})

\* C7 (as claimed): a fragment that cannot be decoded, and in the NIM loop an
\* event whose processing raises, is skipped and nothing else: once the
\* response has been consumed the output is the text of every well-formed
\* message, in order, nothing else has been printed, and the TGI counters have
\* counted exactly the tokens.
C7_UndecodableFragmentsOnlySkipped ==
    (parser \in {"tgi", "nim"} /\ wire = << >>) =>
        /\ printed = ExpectedPrinted(msgs)
        /\ errors = 0
        /\ parser = "tgi" => /\ token_count = Len(ExpectedPrinted(msgs))
                             /\ first_token_received = (token_count > 0)

----------------------------------------------------------------------------
(* Properties of the scaling configuration *)

ScaleInConfigured ==
    /\ epStatus = "InService" /\ icStatus \in {"InService", "Updating"}
    /\ target.registered /\ target.min = 0
    /\ HasPolicy("TargetTrackingScaling")

C13_UpdateReferencesUploadedObject ==
    (nb = "multi_adapter" /\ \E i \in DOMAIN calls : calls[i].api = "update_inference_component")
        => artifact \in objects

\* The calls the multi-adapter notebook has issued are the first calls of its
\* program, in order.
IssuedInProgramOrder ==
    /\ Len(calls) <= Len(MultiAdapterProgram)
    /\ \A i \in DOMAIN calls : calls[i].api = MultiAdapterProgram[i].api

\* An earlier call than call i returned and created resource r.
CreatedEarlier(i, r) ==
    \E j \in 1 .. (i - 1) : calls[j].out = "ok" /\ r \in Elems(calls[j].creates)

\* An earlier call than call i is a wait for resource r that returned.
WaitReturnedEarlier(i, r) ==
    \E j \in 1 .. (i - 1) :
        /\ calls[j].out = "ok"
        /\ MultiAdapterProgram[j].api \in {"wait_for_endpoint", "wait_for_inference_component"}
        /\ MultiAdapterProgram[j].on = r

\* C14: in the multi-adapter notebook the model is created before the endpoint
\* configuration and the endpoint are requested, the base component is
\* requested only after wait_for_endpoint returned, the adapter component only
\* after the wait for the base component returned, and a component is invoked
\* only after the wait for that component returned.
C14_DependencyOrder ==
    nb = "multi_adapter" =>
        /\ IssuedInProgramOrder
        /\ \A i \in DOMAIN calls :
              LET op == MultiAdapterProgram[i]
              IN  /\ op.api \in {"create_endpoint_config", "create_endpoint"}
                        => CreatedEarlier(i, "model")
                  /\ "base_inference_component" \in Elems(op.creates)
                        => WaitReturnedEarlier(i, "endpoint")
                  /\ "adapter_inference_component" \in Elems(op.creates)
                        => WaitReturnedEarlier(i, "base_inference_component")
                  /\ op.api = "invoke_endpoint" => WaitReturnedEarlier(i, op.on)

\* the adapter component has been created, waited for and invoked
C14_Witness ==
    /\ nb = "multi_adapter"
    /\ \E i \in DOMAIN calls :
          /\ calls[i].api = "invoke_endpoint" /\ calls[i].out = "ok"
          /\ MultiAdapterProgram[i].on = "adapter_inference_component"

\* C15: once the clean-up cell of the scale-to-zero notebook has called
\* delete_scaling_policy, every policy the notebook put (target tracking and
\* step scaling) has a later delete call that names the same policy, resource
\* and scalable dimension.
C15_EveryPolicyPutIsDeleted ==
    (nb = "s2z" /\ \E k \in DOMAIN calls : calls[k].api = "delete_scaling_policy")
        => \A i \in DOMAIN calls :
              calls[i].api = "put_scaling_policy"
                 => \E j \in DOMAIN calls :
                       /\ i < j /\ calls[j].api = "delete_scaling_policy"
                       /\ Elems(calls[i].creates) \subseteq Elems(calls[j].deletes)

\* C16: when the TGI streaming cell has consumed the response, token_count is
\* the number of 'data: ' messages with a token that the endpoint sent and the
\* token texts have been printed once each and in order, however the messages
\* were distributed over the PayloadPart events.
C16_TokenCountIndependentOfEvents ==
    (parser = "tgi" /\ wire = << >>) =>
        /\ token_count = Len(ExpectedPrinted(msgs))
        /\ printed = ExpectedPrinted(msgs)

----------------------------------------------------------------------------
(* Properties of the template parameter and of create_payload *)

\* C17: the template accepts a value of OpenSearchPassword exactly when it is
\* 8 to 32 characters long and has at least one letter, one digit and one
\* character that is neither.
C17_PasswordAcceptedIffLettersDigitsSymbols ==
    verdict # "none" =>
        (verdict = "accepted" <=>
            /\ 8 <= PasswordLength(password) /\ PasswordLength(password) <= 32
            /\ Has(password, "upper") \/ Has(password, "lower")
            /\ Has(password, "digit")
            /\ Has(password, "symbol"))

\* C18: create_payload raises ValueError exactly when the prompt is empty;
\* otherwise the payload has the prompt as inputs and, as parameters, the
\* argument or, when it was omitted, the default dict, which is the same for
\* every call whatever calls came before.
C18_CreatePayload ==
    call.n > 0 =>
        /\ call.raised = "ValueError" <=> call.prompt = << >>
        /\ call.raised \in {"none", "ValueError"}
        /\ call.raised = "none" =>
              /\ call.payload.inputs = call.prompt
              /\ call.payload.parameters =
                    (IF call.parameters = Omitted THEN DefaultParameters ELSE call.parameters)
        /\ parameters_default = DefaultParameters

\* a later call without `parameters` that returned a payload
C18_Witness ==
    /\ call.n > 1 /\ call.parameters = Omitted /\ call.raised = "none"
    /\ Len(call.prompt) = 1

----------------------------------------------------------------------------
(* The scale-out polling loop *)

\* C19: when the scale-out polling loop exits on the status InService after
\* the invocation of the component without copies has failed, the component
\* has scaled out: it has at least one copy, so the verification
\* invocation that follows is served.
C19_ScaleOutLoopExitsAfterScaleOut ==
    [][(/\ pc = "out_check" /\ pc' = "verify_invoke" /\ status = "InService"
        /\ \E i \in DOMAIN calls : calls[i].api = "predict_zero" /\ calls[i].out = "no_capacity")
          => current >= 1]_vars

----------------------------------------------------------------------------
(* The NIM post-processor and the chunking of the response *)

\* The whole text of the response.
ResponseText == Flatten([i \in DOMAIN msgs |-> NimMessage(msgs[i])])

\* What the loop prints when the whole text arrives in a single event.
SingleEventPrinted ==
    IF Undecodable(ResponseText) THEN << >> ELSE Drain(ResponseText, << >>).out

\* C20: however the text of the response is cut into PayloadPart events, when
\* the NIM loop has consumed them it has printed what it prints when the whole
\* text arrives in a single event.
C20_IndependentOfChunking ==
    (parser = "nim" /\ wire = << >>) => printed = SingleEventPrinted

----------------------------------------------------------------------------
(* Termination of the inner while loop of the NIM post-processor *)

\* The number of end markers in a text.
CountEndMarkers(acc) ==
    Cardinality({i \in 1 .. (Len(acc) - Len(end_marker) + 1) :
                    SubSeq(acc, i, i + Len(end_marker) - 1) = end_marker})

\* C21: every iteration of the inner while loop removes a prefix of
\* accumulated_data that is at least as long as the end marker, whatever the
\* buffer holds; the loop has made no more iterations than the buffer had end
\* markers when it was entered; and the loop is left.
C21_InnerLoopTerminates ==
    /\ [][iterations' = iterations + 1 =>
            /\ Len(accumulated_data') <= Len(accumulated_data) - Len(end_marker)
            /\ accumulated_data' = SubSeq(accumulated_data,
                                          Len(accumulated_data) - Len(accumulated_data') + 1,
                                          Len(accumulated_data))]_vars
    /\ [](iterations <= CountEndMarkers(entered))
    /\ <>(pc = "nim_done")

\* The loop has been left after two iterations on a buffer whose first end
\* marker stands before its first 'data:'.
C21_Witness ==
    /\ pc = "nim_done" /\ iterations = 2
    /\ Find(start_marker, entered) # 0
    /\ Find(end_marker, entered) < Find(start_marker, entered)

----------------------------------------------------------------------------
(* The uninterrupted run of the scale-to-zero notebook *)

\* C22: in an uninterrupted run of the scale-to-zero notebook, after the
\* invocation at zero capacity has failed for lack of capacity the later
\* cells are still reached: the run comes to have issued the delete calls for
\* the scalable target, the alarm, the inference component, the endpoint and
\* the endpoint configuration.
C22_CleanupReachedAfterFailedInvocation ==
    (nb = "s2z" /\ \E i \in DOMAIN calls :
                      calls[i].api = "predict_zero" /\ calls[i].out = "no_capacity")
        ~> (\A r \in {"scalable_target", "alarm", "inference_component", "endpoint",
                      "endpoint_config"} : DeletedAt(r) # {})

====
